---- MODULE Spec2Model ----
(***************************************************************************)
(* Model of app.py: the token-window chunker (chunk_text, make_chunks),    *)
(* the document loader (load_pdfs), the embedding client (OpenAIEmbedder)  *)
(* and the indexing orchestrator (get_collection, cached per argument by   *)
(* st.cache_resource) over one persistent Chroma collection.               *)
(*                                                                         *)
(* Two specifications share the variables:                                 *)
(*   ChunkSpec  runs chunk_text one loop iteration per step on a text and  *)
(*              a (chunk_tokens, overlap) pair drawn at Init;              *)
(*   Spec       runs the page script: get_collection(rebuild) calls,       *)
(*              edits of the PDF folder and restarts of the process.       *)
(***************************************************************************)
EXTENDS Integers, Sequences, FiniteSets, TLC

VARIABLES
    \* ---- chunk_text(text, chunk_tokens, overlap)
    text,          \* argument: the page text, a sequence of characters
    chunk_tokens,  \* argument
    overlap,       \* argument
    loop,          \* the locals of chunk_text and its position
    \* ---- the page script and get_collection
    corpus,        \* what DATA_DIR holds: an index into Corpora
    coll,          \* the persistent collection COLLECTION_NAME, or NoColl
    nextUid,       \* the id the store gives the next collection it creates
    cache,         \* st.cache_resource: rebuild argument -> cached handle
    last,          \* the most recent get_collection call and what it did:
                   \*   rebuild, corpus: its argument and the folder it saw
                   \*   hit: the cache answered; raised, err: it raised
                   \*   handle: the handle returned (0: none)
                   \*   existed, count0: the collection before the call
                   \*   changed: the call changed the collection
                   \*   swallowed: the delete failed for another reason
                   \*     than a missing collection; the except passed
                   \*   loaded: load_pdfs was called
                   \*   embeds, adds: provider calls made, adds completed
    partial        \* the folder whose indexing raised after an add was
                   \* written and left the collection as it is now (0: none)

chunkVars == <<text, chunk_tokens, overlap, loop>>
indexVars == <<corpus, coll, nextUid, cache, last, partial>>
vars == <<text, chunk_tokens, overlap, loop, corpus, coll, nextUid, cache, last, partial>>

(***************************************************************************)
(* Bounds of the model                                                     *)
(***************************************************************************)
MaxLen == 4        \* longest text drawn for chunk_text, in characters
MaxChunk == 3      \* largest chunk_tokens drawn (smallest is -1)
MaxOverlap == 3    \* largest overlap drawn (smallest is 0)
MaxUid == 3        \* collections the store creates in one run of the model

\* iterations of the while loop a run may take before the model stops it
\* (a valid config never needs more than one per token)
MaxIter == MaxLen + 2

(***************************************************************************)
(* Program constants                                                       *)
(***************************************************************************)
CHUNK_TOKENS == 700
CHUNK_OVERLAP == 120
BATCH == 256
EMBED_BATCH == 64

Min2(a, b) == IF a < b THEN a ELSE b
Max2(a, b) == IF a > b THEN a ELSE b
SetMin(S) == CHOOSE x \in S : \A y \in S : x <= y
SetMax(S) == CHOOSE x \in S : \A y \in S : x >= y
CeilDiv(a, b) == (a + b - 1) \div b

(***************************************************************************)
(* Text and tokens.  A text is a sequence of characters.  The tokenizer is *)
(* stood in for by a character-level encoding: one token id per character  *)
(* (the ids cl100k_base gives these single characters).                    *)
(***************************************************************************)
Chars == {" ", "a", "b"}
Whitespace == {" "}

TokenOf(c) == CASE c = " " -> 220 [] c = "a" -> 64 [] c = "b" -> 65
CharOf(t) == CASE t = 220 -> " " [] t = 64 -> "a" [] t = 65 -> "b"

\* enc.encode(text)
Encode(s) == [i \in 1..Len(s) |-> TokenOf(s[i])]
\* enc.decode(tokens)
Decode(ts) == [i \in 1..Len(ts) |-> CharOf(ts[i])]

\* str.strip(): leading and trailing whitespace removed
Strip(s) ==
    LET keep == {i \in 1..Len(s) : s[i] \notin Whitespace}
    IN IF keep = {} THEN <<>> ELSE SubSeq(s, SetMin(keep), SetMax(keep))

\* Python's s[a:b] for integers a, b (negative indexes count from the end)
PyIndex(i, n) == IF i < 0 THEN Max2(i + n, 0) ELSE Min2(i, n)
PySlice(s, a, b) == SubSeq(s, PyIndex(a, Len(s)) + 1, PyIndex(b, Len(s)))

Rep(c, n) == [i \in 1..n |-> c]

(***************************************************************************)
(* chunk_text.  `loop` holds its locals (tokens, chunks, start, end), its  *)
(* position pc ("idle" before the call, "loop" at the while test, "done"   *)
(* after the return) and a record of what the loop did: windows, the       *)
(* <<start, end>> span of every iteration; kept, the span of every chunk   *)
(* appended (so kept[i+1] is the span of the chunk enumerate numbers i);   *)
(* iters, the iterations run.                                              *)
(***************************************************************************)
Idle ==
    [pc |-> "idle", tokens |-> <<>>, chunks |-> <<>>, start |-> 0, end |-> 0,
     windows |-> <<>>, kept |-> <<>>, iters |-> 0]

\* lines 75-77: tokens = enc.encode(text); chunks = []; start = 0
ChunkStart(t) ==
    [pc |-> "loop", tokens |-> Encode(t), chunks |-> <<>>, start |-> 0, end |-> 0,
     windows |-> <<>>, kept |-> <<>>, iters |-> 0]

\* line 83: start = end - overlap
NextStartNoOverlap(end, ov) == end
NextStartSkip(end, ov) == end - ov + 1
NextStart(end, ov) == end - ov

\* line 81: if chunk:
KeepChunk(chunk) == chunk # <<>>

\* lines 79-87: one iteration of the while body
ChunkBody(st, ct, ov) ==
    LET n == Len(st.tokens)
        end == Min2(st.start + ct, n)
        chunk == Strip(Decode(PySlice(st.tokens, st.start, end)))
        s1 == NextStart(end, ov)
    IN [pc |-> IF end = n THEN "done" ELSE "loop",
        tokens |-> st.tokens,
        chunks |-> IF KeepChunk(chunk) THEN Append(st.chunks, chunk) ELSE st.chunks,
        start |-> IF s1 < 0 THEN 0 ELSE s1,
        end |-> end,
        windows |-> Append(st.windows, <<st.start, end>>),
        kept |-> IF KeepChunk(chunk) THEN Append(st.kept, <<st.start, end>>) ELSE st.kept,
        iters |-> st.iters + 1]

\* lines 78-88 run to the return, for a config under which the loop ends
RECURSIVE ChunkLoop(_, _, _)
ChunkLoop(st, ct, ov) ==
    IF st.pc = "done" THEN st
    ELSE IF st.start < Len(st.tokens) THEN ChunkLoop(ChunkBody(st, ct, ov), ct, ov)
    ELSE [st EXCEPT !.pc = "done"]

\* chunk_text(text, chunk_tokens, overlap): the chunks returned
chunk_text(t, ct, ov) == ChunkLoop(ChunkStart(t), ct, ov).chunks

\* the config the spec calls valid
ValidConfig == chunk_tokens > 0 /\ 0 <= overlap /\ overlap < chunk_tokens

(***************************************************************************)
(* The PDF folder.  A folder is the sequence of PDF files rglob finds, each *)
(* with its file name, its path and the text extract_text gives per page.  *)
(***************************************************************************)
File(name, path, pages) == [name |-> name, path |-> path, pages |-> pages]

Corpora ==
    << \* 1: no PDF at all
       <<>>,
       \* 2: one document, one page of 1500 tokens
       << File("doc.pdf", "hr/doc.pdf", <<Rep("a", 1500)>>) >>,
       \* 3: one document of BATCH + 1 short pages
       << File("big.pdf", "big.pdf", [p \in 1..(BATCH + 1) |-> <<"b", " ">>]) >>,
       \* 4: two documents of the same file name in two subfolders
       << File("doc.pdf", "hr/doc.pdf", << <<"a">> >>),
          File("doc.pdf", "legal/doc.pdf", << <<"b">> >>) >>,
       \* 5: a scanned document: its pages extract to nothing or to blanks
       << File("scan.pdf", "scan.pdf", << <<>>, <<" ", " ">> >>) >>,
       \* 6: a document of BATCH pages and a namesake in a subfolder
       << File("doc.pdf", "doc.pdf", [p \in 1..BATCH |-> <<"a", "b">>]),
          File("doc.pdf", "old/doc.pdf", << <<"b">> >>) >> >>

NumCorpora == Len(Corpora)

\* lines 63-66: the pages of one file, numbered from 1, blank pages skipped
PageSource(f) == f.name
HasText(p) == p.text # <<>>
FilePages(f) ==
    SelectSeq([i \in 1..Len(f.pages) |->
                  [text |-> Strip(f.pages[i]), source |-> PageSource(f),
                   path |-> f.path, page |-> i]],
              HasText)

RECURSIVE AllPages(_, _)
AllPages(folder, k) ==
    IF k = 0 THEN <<>> ELSE AllPages(folder, k - 1) \o FilePages(folder[k])

\* load_pdfs(folder): raises when rglob finds no PDF
load_pdfs(folder) ==
    IF Len(folder) = 0
    THEN [raised |-> TRUE, pages |-> <<>>]
    ELSE [raised |-> FALSE, pages |-> AllPages(folder, Len(folder))]

\* lines 93-100: the chunk records of one page; chunk_id is
\* f'{source}:p{page}:c{i}', held as the triple it is formatted from
PageChunks(p) ==
    LET chs == chunk_text(p.text, CHUNK_TOKENS, CHUNK_OVERLAP)
    IN [i \in 1..Len(chs) |->
           [chunk |-> chs[i], source |-> p.source, path |-> p.path, page |-> p.page,
            chunk_id |-> <<p.source, p.page, i - 1>>]]

RECURSIVE ChunksOfPages(_, _, _)
ChunksOfPages(pages, lo, hi) ==
    IF lo > hi THEN <<>>
    ELSE IF lo = hi THEN PageChunks(pages[lo])
    ELSE LET mid == (lo + hi) \div 2
         IN ChunksOfPages(pages, lo, mid) \o ChunksOfPages(pages, mid + 1, hi)

\* make_chunks(pages)
make_chunks(pages) == ChunksOfPages(pages, 1, Len(pages))

\* what load_pdfs and make_chunks give for each folder of Corpora
Loaded == [c \in 1..NumCorpora |-> load_pdfs(Corpora[c])]
Chunked == [c \in 1..NumCorpora |-> make_chunks(Loaded[c].pages)]

(***************************************************************************)
(* The store.  A collection is [uid, items]: uid is the id the store gave  *)
(* it when it was created (0: there is no collection), items the passages  *)
(* [id, document, metadata].  A handle is the uid of the collection it was *)
(* obtained for; it is live while that collection exists.                  *)
(***************************************************************************)
NoColl == [uid |-> 0, items |-> {}]
Count(c) == Cardinality(c.items)
Ids(items) == {it.id : it \in items}

\* lines 144-146: what is passed to collection.add for one chunk
Passage(c) ==
    [id |-> c.chunk_id, document |-> c.chunk,
     metadata |-> [source |-> c.source, path |-> c.path, page |-> c.page]]

\* lines 149-154: the slices ids[i:i+BATCH]
NumBatches(chunks) == CeilDiv(Len(chunks), BATCH)
BatchOf(chunks, b) == SubSeq(chunks, (b - 1) * BATCH + 1, Min2(b * BATCH, Len(chunks)))

\* lines 112-118: the provider calls OpenAIEmbedder.__call__ makes for n texts
EmbedCalls(n) == CeilDiv(n, EMBED_BATCH)

\* what can fail in a run: nothing; the n-th embeddings.create call of the
\* run; the store write of the n-th add
NoFail == [kind |-> "none", n |-> 0]
FailPoints ==
    {NoFail}
        \cup {[kind |-> "embed", n |-> k] : k \in {1, EmbedCalls(BATCH) + 1}}
        \cup {[kind |-> "store", n |-> b] : b \in 1..2}

\* a store that finds an id of an add already present either raises or leaves
\* the stored passage and skips the new one, by its version
DupPolicies == {"raise", "skip"}

\* lines 150-154: collection.add of one batch.  The ids are validated, the
\* documents embedded, the passages written.
Add(items, batch, b, calls, fail, policy) ==
    LET ids == {batch[i].chunk_id : i \in 1..Len(batch)}
        have == Ids(items)
        need == EmbedCalls(Len(batch))
        fresh == {Passage(batch[i]) : i \in {j \in 1..Len(batch) :
                                               batch[j].chunk_id \notin have}}
    IN IF Cardinality(ids) < Len(batch)
       THEN [raised |-> TRUE, err |-> "DuplicateIDError", items |-> items, calls |-> calls]
       ELSE IF fail.kind = "embed" /\ calls < fail.n /\ fail.n <= calls + need
       THEN [raised |-> TRUE, err |-> "EmbeddingError", items |-> items, calls |-> fail.n]
       ELSE IF fail.kind = "store" /\ fail.n = b
       THEN [raised |-> TRUE, err |-> "StoreError", items |-> items, calls |-> calls + need]
       ELSE IF ids \cap have # {} /\ policy = "raise"
       THEN [raised |-> TRUE, err |-> "IDAlreadyExistsError", items |-> items,
             calls |-> calls + need]
       ELSE [raised |-> FALSE, err |-> "", items |-> items \cup fresh,
             calls |-> calls + need]

\* what is left in the collection when an add raises: the batches written
\* before it (there is no rollback)
AfterFailureRolledBack(before, now) == before
AfterFailure(before, now) == now

\* lines 148-154: the adds, batch after batch, until one raises
RECURSIVE Populate(_, _, _, _, _, _)
Populate(items, chunks, b, calls, fail, policy) ==
    IF b > NumBatches(chunks)
    THEN [raised |-> FALSE, err |-> "", items |-> items, calls |-> calls, adds |-> b - 1]
    ELSE LET r == Add(items, BatchOf(chunks, b), b, calls, fail, policy)
         IN IF r.raised
            THEN [raised |-> TRUE, err |-> r.err, items |-> items, calls |-> r.calls,
                  adds |-> b - 1]
            ELSE Populate(r.items, chunks, b + 1, r.calls, fail, policy)

\* lines 129-133: the delete of a rebuild.  delete_collection raises when the
\* collection does not exist and when the store fails (del = "error"); the
\* except clause passes on either.
DeleteOutcomes == {"ok", "error"}
AfterDelete(c, del) == IF c.uid # 0 /\ del = "ok" THEN NoColl ELSE c
DeleteFailed(del) == del = "error"

\* line 140: if collection.count() == 0
NeedsIndexingAlways(c) == TRUE
NeedsIndexing(c) == Count(c) = 0

\* lines 126-155: the body of get_collection
Body(rebuild, folder, c0, uid, del, fail, policy) ==
    LET c1 == IF rebuild THEN AfterDelete(c0, del) ELSE c0
        created == c1.uid = 0
        c2 == IF created THEN [uid |-> uid, items |-> {}] ELSE c1
        uid2 == IF created THEN uid + 1 ELSE uid
        swallowed == rebuild /\ DeleteFailed(del)
    IN IF ~NeedsIndexing(c2)
       THEN [raised |-> FALSE, err |-> "", coll |-> c2, nextUid |-> uid2, handle |-> c2.uid,
             swallowed |-> swallowed, loaded |-> FALSE, embeds |-> 0, adds |-> 0]
       ELSE IF Loaded[folder].raised
       THEN [raised |-> TRUE, err |-> "FileNotFoundError", coll |-> c2, nextUid |-> uid2,
             handle |-> 0, swallowed |-> swallowed, loaded |-> TRUE, embeds |-> 0,
             adds |-> 0]
       ELSE LET p == Populate(c2.items, Chunked[folder], 1, 0, fail, policy)
                left == IF p.raised THEN AfterFailure(c2.items, p.items) ELSE p.items
            IN [raised |-> p.raised, err |-> p.err,
                coll |-> [uid |-> c2.uid, items |-> left],
                nextUid |-> uid2, handle |-> IF p.raised THEN 0 ELSE c2.uid,
                swallowed |-> swallowed, loaded |-> TRUE, embeds |-> p.calls,
                adds |-> p.adds]

(***************************************************************************)
(* ChunkSpec: the steps of one chunk_text call                             *)
(***************************************************************************)
RECURSIVE Texts(_)
Texts(n) ==
    IF n = 0 THEN {<<>>}
    ELSE Texts(n - 1) \cup {Append(s, c) : s \in {t \in Texts(n - 1) : Len(t) = n - 1}, c \in Chars}

\* the spec's example page: 1500 tokens
ExamplePage == Rep("a", 1500)

\* the page script before its first get_collection call
NoCall ==
    [kind |-> "none", rebuild |-> FALSE, corpus |-> 0, hit |-> FALSE, raised |-> FALSE,
     err |-> "", handle |-> 0, existed |-> FALSE, count0 |-> 0, changed |-> FALSE,
     swallowed |-> FALSE, loaded |-> FALSE, embeds |-> 0, adds |-> 0]

IndexIdle ==
    /\ corpus = 1
    /\ coll = NoColl
    /\ nextUid = 1
    /\ cache = [r \in BOOLEAN |-> 0]
    /\ last = NoCall
    /\ partial = 0

ChunkInit ==
    /\ \/ /\ text \in Texts(MaxLen)
          /\ chunk_tokens \in -1..MaxChunk
          /\ overlap \in 0..MaxOverlap
       \/ /\ text = ExamplePage
          /\ chunk_tokens = CHUNK_TOKENS
          /\ overlap = CHUNK_OVERLAP
    /\ loop = Idle
    /\ IndexIdle

\* lines 74-77: the call
ChunkCall ==
    /\ loop.pc = "idle"
    /\ loop' = ChunkStart(text)
    /\ UNCHANGED <<text, chunk_tokens, overlap, indexVars>>

\* lines 78-87: the while test holds and the body runs
ChunkIter ==
    /\ loop.pc = "loop"
    /\ loop.start < Len(loop.tokens)
    /\ loop.iters < MaxIter
    /\ loop' = ChunkBody(loop, chunk_tokens, overlap)
    /\ UNCHANGED <<text, chunk_tokens, overlap, indexVars>>

\* lines 78, 88: the while test fails and the function returns
ChunkExit ==
    /\ loop.pc = "loop"
    /\ ~(loop.start < Len(loop.tokens))
    /\ loop' = [loop EXCEPT !.pc = "done"]
    /\ UNCHANGED <<text, chunk_tokens, overlap, indexVars>>

ChunkNext == ChunkCall \/ ChunkIter \/ ChunkExit

ChunkSpec == ChunkInit /\ [][ChunkNext]_vars

(***************************************************************************)
(* Properties of chunk_text (checked under ChunkSpec)                      *)
(***************************************************************************)
Done == loop.pc = "done"
NumTokens == Len(loop.tokens)
Covered(spans, p) == \E i \in 1..Len(spans) : spans[i][1] <= p /\ p < spans[i][2]
WindowText(w) == Strip(Decode(PySlice(loop.tokens, w[1], w[2])))

\* C6 as stated: for a valid config chunk_text ends with chunks whose token
\* spans cover every position 0..n-1, the last chunk's span ending at n.
C6_ChunksCoverEveryToken ==
    (ValidConfig /\ Done) =>
        /\ \A p \in 0..(NumTokens - 1) : Covered(loop.kept, p)
        /\ loop.kept # <<>> => loop.kept[Len(loop.kept)][2] = NumTokens

\* C6 as amended: for a valid config chunk_text ends within n iterations, each
\* window starting after the one before; the windows it visits cover every position 0..n-1 and, for n > 0, the last
\* window ends at n; the chunks returned are exactly the windows whose text is
\* not empty after strip, so every non-whitespace token lies in the span of a
\* returned chunk, and a window of whitespace only yields no chunk.
C6_WindowsCoverEveryToken ==
    ValidConfig =>
        /\ loop.iters <= NumTokens
        /\ loop.pc = "loop" => loop.start < NumTokens \/ loop.iters = 0
        /\ \A i \in 1..(Len(loop.windows) - 1) :
               loop.windows[i + 1][1] > loop.windows[i][1]
        /\ Done =>
            /\ \A p \in 0..(NumTokens - 1) : Covered(loop.windows, p)
            /\ NumTokens > 0 => loop.windows[Len(loop.windows)][2] = NumTokens
            /\ \A p \in 0..(NumTokens - 1) :
                   CharOf(loop.tokens[p + 1]) \notin Whitespace => Covered(loop.kept, p)
            /\ Len(loop.chunks) = Len(loop.kept)
            /\ \A i \in 1..Len(loop.kept) : loop.chunks[i] = WindowText(loop.kept[i])
            /\ \A i \in 1..Len(loop.windows) :
                   (\E k \in 1..Len(loop.kept) : loop.kept[k] = loop.windows[i])
                       <=> WindowText(loop.windows[i]) # <<>>

\* C6 witness: a valid run over several windows, one of them dropped as empty
C6_Witness ==
    /\ ValidConfig /\ Done
    /\ Len(loop.windows) >= 3
    /\ Len(loop.kept) = Len(loop.windows) - 1

Adjacent(spans, n, ct, ov) ==
    \A i \in 1..(Len(spans) - 1) :
        /\ spans[i][2] = Min2(spans[i][1] + ct, n)
        /\ spans[i + 1][1] = spans[i][2] - ov
        /\ PySlice(loop.tokens, spans[i][2] - ov, spans[i][2])
               = PySlice(loop.tokens, spans[i + 1][1], spans[i + 1][1] + ov)

IsExample == text = ExamplePage /\ chunk_tokens = CHUNK_TOKENS /\ overlap = CHUNK_OVERLAP
ExampleWindows == << <<0, 700>>, <<580, 1280>>, <<1160, 1500>> >>

\* C7 as stated: for a valid config, chunk i+1 starts exactly overlap tokens
\* before the end of chunk i (the window of chunk index i is followed by the
\* window of chunk index i+1), so the last overlap tokens of chunk i are the
\* first overlap tokens of chunk i+1.
C7_ChunksOverlap ==
    (ValidConfig /\ Done) =>
        Adjacent(loop.kept, NumTokens, chunk_tokens, overlap)

\* C7 as amended: for a valid config, every window the loop visits after the
\* first, kept or dropped, starts exactly overlap tokens before the end of the
\* window before it, with end_i = min(start_i + chunk_tokens, n), so the last
\* overlap tokens of window i are the first overlap tokens of window i+1; the
\* 1500-token example gives the windows [0,700), [580,1280), [1160,1500), all
\* kept, with chunk indexes 0, 1, 2.
C7_WindowsOverlap ==
    ValidConfig =>
        /\ loop.windows # <<>> => loop.windows[1][1] = 0
        /\ Adjacent(loop.windows, NumTokens, chunk_tokens, overlap)
        /\ (IsExample /\ Done) =>
               /\ loop.windows = ExampleWindows
               /\ loop.kept = ExampleWindows
               /\ Len(loop.chunks) = 3

\* C7 witness: the example has run to its three windows
C7_Witness == IsExample /\ Done /\ Len(loop.windows) = 3 /\ Len(loop.chunks) = 3

\* C8 as stated: a degenerate config (overlap >= chunk_tokens, or
\* chunk_tokens <= 0) is rejected before any window is emitted, and the loop
\* is never entered with a start offset that fails to advance.
C8_DegenerateConfigRejected ==
    ~ValidConfig =>
        /\ loop.windows = <<>>
        /\ loop.chunks = <<>>
        /\ loop.iters = 0

(***************************************************************************)
(* Spec: the page script.  Every rerun of the script calls                 *)
(* get_collection(rebuild) with the value of the checkbox (lines 193-203); *)
(* st.cache_resource (line 124) returns the value cached for that argument *)
(* when there is one and otherwise runs the body and caches what it        *)
(* returns (a raised exception is not cached).  Between reruns the PDF     *)
(* folder may be edited and the process restarted.                         *)
(***************************************************************************)
Init ==
    /\ corpus \in 1..NumCorpora
    /\ coll = NoColl
    /\ nextUid = 1
    /\ cache = [r \in BOOLEAN |-> 0]
    /\ last = NoCall
    /\ partial = 0
    /\ text = <<>>
    /\ chunk_tokens = CHUNK_TOKENS
    /\ overlap = CHUNK_OVERLAP
    /\ loop = Idle

\* line 124: the cached value is returned, the body does not run
CacheHit(rebuild) ==
    /\ cache[rebuild] # 0
    /\ last' = [kind |-> "call", rebuild |-> rebuild, corpus |-> corpus, hit |-> TRUE,
                raised |-> FALSE, err |-> "", handle |-> cache[rebuild],
                existed |-> coll.uid # 0, count0 |-> Count(coll), changed |-> FALSE,
                swallowed |-> FALSE, loaded |-> FALSE, embeds |-> 0, adds |-> 0]
    /\ UNCHANGED <<corpus, coll, nextUid, cache, partial, chunkVars>>

\* lines 124-155: the body runs; its return value is cached
CacheMiss(rebuild, del, fail, policy) ==
    /\ cache[rebuild] = 0
    /\ nextUid <= MaxUid
    /\ rebuild \/ del = "ok"      \* the delete runs in a rebuild only
    /\ \E r \in {Body(rebuild, corpus, coll, nextUid, del, fail, policy)} :
          /\ coll' = r.coll
          /\ nextUid' = r.nextUid
          /\ cache' = IF r.raised THEN cache ELSE [cache EXCEPT ![rebuild] = r.handle]
          /\ last' = [kind |-> "call", rebuild |-> rebuild, corpus |-> corpus,
                      hit |-> FALSE, raised |-> r.raised, err |-> r.err,
                      handle |-> r.handle, existed |-> coll.uid # 0,
                      count0 |-> Count(coll), changed |-> r.coll # coll,
                      swallowed |-> r.swallowed,
                      loaded |-> r.loaded, embeds |-> r.embeds, adds |-> r.adds]
          /\ partial' = IF r.raised /\ r.adds >= 1 THEN corpus
                         ELSE IF r.coll # coll THEN 0
                         ELSE partial
    /\ UNCHANGED <<corpus, chunkVars>>

\* lines 193-203: collection = get_collection(rebuild)
GetCollection ==
    \E rebuild \in BOOLEAN :
        \/ CacheHit(rebuild)
        \/ \E del \in DeleteOutcomes, fail \in FailPoints, policy \in DupPolicies :
               CacheMiss(rebuild, del, fail, policy)

\* the PDFs under DATA_DIR change
ChangeCorpus ==
    /\ \E c \in 1..NumCorpora : c # corpus /\ corpus' = c
    /\ UNCHANGED <<coll, nextUid, cache, last, partial, chunkVars>>

\* the process restarts: the cache and the script's handle are gone, the
\* persistent store is not
Restart ==
    /\ last.kind = "call"
    /\ cache' = [r \in BOOLEAN |-> 0]
    /\ last' = NoCall
    /\ UNCHANGED <<corpus, coll, nextUid, partial, chunkVars>>

Next == GetCollection \/ ChangeCorpus \/ Restart

Spec == Init /\ [][Next]_vars

(***************************************************************************)
(* Properties of get_collection (checked under Spec)                       *)
(***************************************************************************)
IsCall == last.kind = "call"
Returned == IsCall /\ ~last.raised
BodyRan == IsCall /\ ~last.hit
NumChunks(c) == Len(Chunked[c])
ChunkIds(c) == {Chunked[c][i].chunk_id : i \in 1..NumChunks(c)}
Passages(c) == {Passage(Chunked[c][i]) : i \in 1..NumChunks(c)}

\* C1 as stated: every get_collection call that returns, returns a handle to
\* the collection that exists now; after a rebuild has deleted and recreated
\* the collection no call returns a handle to the deleted one.
C1_HandleIsLive ==
    Returned => (coll.uid # 0 /\ last.handle = coll.uid)

\* C2 as stated: after every rebuild=true request that returns, the collection
\* holds exactly the chunks make_chunks produces from the current folder and
\* no passage of an earlier one.  (Stated for the folders whose chunk ids are
\* distinct, so that it does not rest on C5.)
C2_RebuildLeavesCurrentCorpus ==
    (Returned /\ last.rebuild
        /\ Cardinality(ChunkIds(last.corpus)) = NumChunks(last.corpus)) =>
        /\ Count(coll) = NumChunks(last.corpus)
        /\ coll.items \subseteq Passages(last.corpus)

\* C3 as stated: with no document in the folder, get_collection raises the
\* empty-corpus error and leaves the collection exactly as it was.
C3_EmptyCorpusLeavesCollection ==
    (IsCall /\ Loaded[last.corpus].raised) =>
        /\ last.raised
        /\ last.err = "FileNotFoundError"
        /\ ~last.changed

\* C4: a rebuild=false call that finds the collection populated (count > 0)
\* returns without a document load, an embedding call or a store write, and
\* a rebuild=false call on a collection that already holds as many passages
\* as the unchanged folder has chunks leaves it as it is.
C4_IndexingIsIdempotent ==
    (IsCall /\ ~last.rebuild) =>
        /\ last.count0 > 0 =>
               /\ ~last.raised /\ ~last.changed
               /\ ~last.loaded /\ last.embeds = 0 /\ last.adds = 0
        /\ (last.existed /\ ~Loaded[last.corpus].raised
                /\ last.count0 = NumChunks(last.corpus)) =>
               /\ ~last.raised /\ ~last.changed
               /\ last.embeds = 0 /\ Count(coll) = NumChunks(last.corpus)

\* C4 witness: the body ran with rebuild=false on a populated collection
C4_Witness ==
    /\ BodyRan /\ ~last.rebuild /\ last.count0 > 0
    /\ Count(coll) = NumChunks(last.corpus)

\* C5 as stated: the chunk ids make_chunks produces from a loaded folder are
\* pairwise distinct, so as many passages are stored as chunks were produced.
C5_ChunkIdsDistinct ==
    (BodyRan /\ last.loaded /\ ~Loaded[last.corpus].raised) =>
        /\ Cardinality(ChunkIds(last.corpus)) = NumChunks(last.corpus)
        /\ ~last.raised => Count(coll) = NumChunks(last.corpus)

\* C9 as stated: a delete that fails for another reason than a missing
\* collection (here: on a collection that exists) is raised to the caller, and
\* get_collection does not go on to get-or-create and population.
C9_DeleteFailurePropagates ==
    (BodyRan /\ last.swallowed /\ last.existed) =>
        /\ last.raised
        /\ ~last.loaded
        /\ ~last.changed

\* C10: when population raises after at least one add of BATCH items was
\* written, the call raises, what was written stays, and the collection holds
\* fewer passages than the folder has chunks; every later rebuild=false call
\* finds count > 0 and writes nothing, and the collection stays short until a
\* call changes it (which only a rebuild=true call does).
C10_PartialIndexStays ==
    /\ partial # 0 =>
           /\ coll.uid # 0
           /\ 0 < Count(coll) /\ Count(coll) < NumChunks(partial)
    /\ (IsCall /\ last.raised /\ last.adds >= 1) =>
           /\ partial = last.corpus
           /\ last.handle = 0
           /\ {Chunked[last.corpus][i].chunk_id : i \in 1..(last.adds * BATCH)}
                  \subseteq Ids(coll.items)
    /\ (partial # 0 /\ Returned /\ ~last.rebuild) =>
           /\ last.count0 > 0
           /\ ~last.changed /\ ~last.loaded /\ last.adds = 0 /\ last.embeds = 0

\* C10 witness: after a population that raised in its second add, a
\* rebuild=false call ran the body and returned
C10_Witness ==
    /\ partial # 0
    /\ BodyRan /\ Returned /\ ~last.rebuild
    /\ Count(coll) = BATCH

====
